---- MODULE Spec2Model ----
(***************************************************************************)
(* Accessibility-compliance runtime of the wellness-benefits portal:       *)
(*   - focusUtils (focusFirstElement / trapFocus / restoreFocus)           *)
(*   - useScreenReaderAnnouncement (single announcement slot + timers)     *)
(*   - useKeyboardShortcuts (chorded key bindings with typing suppression) *)
(* Each component is checked under its own specification (FocusSpec,       *)
(*   - validateTouchTarget / auditTouchTargets (touch-target geometry)     *)
(*   - getContrastRatio / meetsWCAGAA (WCAG colour contrast)               *)
(* Each component is checked under its own specification (FocusSpec,       *)
(* LifecycleSpec, AnnouncerSpec, ShortcutSpec, TouchSpec, ContrastSpec);   *)
(* the variables of the other components stay at their initial value.      *)
(***************************************************************************)
EXTENDS Integers, Sequences, FiniteSets, TLC

VARIABLES
    children,        \* the container's child elements, in document order
    activeElement,   \* document.activeElement (a position, or Body)
    openerAttached,  \* is the element outside/before the container still in the document
    previousFocus,   \* the element the host recorded before entering the container
    lastEvt,         \* what the last focus operation did (observation of the handler)
    announcement,    \* useScreenReaderAnnouncement: the slot (React state)
    timers,          \* pending setTimeout callbacks of the announcer
    now,             \* the clock, in ms
    lastAnnounce,    \* the most recent announce call (observation)
    lastOp,          \* the last announcer step (observation)
    isEnabled,       \* useKeyboardShortcuts(isEnabled)
    shortcutsVisible,\* useKeyboardShortcuts: help panel state
    shortcutAnnouncement, \* useKeyboardShortcuts: its own announcement slot
    shortcutTimers,  \* pending 2000 ms clear callbacks of announceShortcut
    route,           \* the router's current path
    page,            \* what the current page contains (main landmark, submit button)
    lastKey,         \* what the last keydown dispatch did (observation)
    dom,             \* the page's elements with their measured boxes, in document order
    lastTouch,       \* the last touch-target validation or audit (observation)
    foreground,      \* the colour strings and the text-size flag handed to the
    background,      \*   contrast functions
    isLargeText,
    lastContrast,    \* what the last contrast call returned or threw (observation)
    formMessage,     \* FormAnnouncement: the message prop
    formAnnouncement,\* FormAnnouncement: the announcement state (what is displayed)
    formTimer,       \* FormAnnouncement: the pending clear timer (its due time)
    formNow,         \* FormAnnouncement: the clock, in ms
    formSetAt,       \* when the displayed announcement was set (observation)
    dragActive,      \* MediaUpload: a drag is over the drop zone
    uploadedFiles,   \* MediaUpload: the uploaded-files list (React state)
    lastFilesChange, \* MediaUpload: the last onFilesChange call (observation)
    viewportContent, \* the content attribute of <meta name="viewport">
    mobileViewport,  \* isMobileViewport()
    focusinHandlers, \* number of preventZoom listeners manageMobileFocus installed
    fieldEnhanced,   \* the field has enhanceForMobile's preventZoom focus listener
    fieldFocused,    \* the form field has focus
    blurListeners,   \* the field's pending blur listeners (the content each captured)
    lastZoom,        \* the last focus / blur of the field (observation)
    user,            \* AuthProvider: the user state
    storedSession,   \* sessionStorage has an 'authUser' item
    pendingCalls,    \* login / register calls waiting in their 1000 ms delay
    authCalls,       \* number of login / register calls started so far
    lastLogout,      \* authCalls at the last logout, -1 before any (observation)
    authBy           \* the call that last set the user (observation)

focusVars == <<children, activeElement, openerAttached, previousFocus, lastEvt>>
announcerVars == <<announcement, timers, now, lastAnnounce, lastOp>>
shortcutVars == <<isEnabled, shortcutsVisible, shortcutAnnouncement, shortcutTimers,
                  route, page, lastKey>>
touchVars == <<dom, lastTouch>>
contrastVars == <<foreground, background, isLargeText, lastContrast>>
formVars == <<formMessage, formAnnouncement, formTimer, formNow, formSetAt>>
mediaVars == <<dragActive, uploadedFiles, lastFilesChange>>
zoomVars == <<viewportContent, mobileViewport, focusinHandlers, fieldEnhanced,
              fieldFocused, blurListeners, lastZoom>>
authVars == <<user, storedSession, pendingCalls, authCalls, lastLogout, authBy>>
vars == <<children, activeElement, openerAttached, previousFocus, lastEvt,
          announcement, timers, now, lastAnnounce, lastOp,
          isEnabled, shortcutsVisible, shortcutAnnouncement, shortcutTimers,
          route, page, lastKey,
          dom, lastTouch,
          foreground, background, isLargeText, lastContrast,
          formMessage, formAnnouncement, formTimer, formNow, formSetAt,
          dragActive, uploadedFiles, lastFilesChange,
          viewportContent, mobileViewport, focusinHandlers, fieldEnhanced,
          fieldFocused, blurListeners, lastZoom,
          user, storedSession, pendingCalls, authCalls, lastLogout, authBy>>

(***************************************************************************)
(* Bounds of the model                                                     *)
(***************************************************************************)
MaxLen == 3
\* announcer: number of announce calls, clock granularity and horizon (ms)
MaxAnnounces == 3
TickMs == 500
MaxTime == 3000
\* shortcut hook: number of clear callbacks that may be pending at once
MaxShortcutTimers == 1
\* touch-target audit: number of elements on the page
MaxTargets == 2
\* FormAnnouncement: horizon of its clock (ms)
MaxFormTime == 4000
\* MediaUpload: length of the uploaded-files list
MaxFiles == 3
\* number of manageMobileFocus calls
MaxZoomHandlers == 2
\* number of login / register calls
MaxAuthCalls == 3

(***************************************************************************)
(* DOM values.  Children of the container are the positions 1..Len; the    *)
(* other references a handler can hold are the values below.               *)
(***************************************************************************)
\* document.body: what document.activeElement is when no element has focus
Body == 0
\* the focusable element before the container in document order (e.g. the
\* button that opened the modal)
Opener == -1
\* the focusable element after the container in document order
After == -2
\* focusableElements[0] of an empty array
Undefined == -3
\* restoreFocus(null)
Null == -4
\* a reference to an element that was removed from the document
Detached == -5
\* no element.focus() call was made
NoCall == -6

\* An element: the attributes the selector and the browser look at.
\* tabindex is the attribute's text, "none" when the attribute is absent.
ElementKinds ==
    { [tag |-> "button", href |-> FALSE, tabindex |-> "none"],
      [tag |-> "button", href |-> FALSE, tabindex |-> "-1"],
      [tag |-> "a",      href |-> TRUE,  tabindex |-> "none"],
      [tag |-> "a",      href |-> FALSE, tabindex |-> "none"],
      [tag |-> "div",    href |-> FALSE, tabindex |-> "none"],
      [tag |-> "div",    href |-> FALSE, tabindex |-> "0"],
      [tag |-> "div",    href |-> FALSE, tabindex |-> "-1"],
      [tag |-> "div",    href |-> FALSE, tabindex |-> "-2"] }

\* 'button, [href], input, select, textarea, [tabindex]:not([tabindex="-1"])'
MatchesFocusableSelector(e) ==
    \/ e.tag \in {"button", "input", "select", "textarea"}
    \/ e.href
    \/ (e.tabindex # "none" /\ e.tabindex # "-1")

\* HTML: the integer a tabindex attribute parses to
TabindexValue(e) ==
    CASE e.tabindex = "0"  -> 0
      [] e.tabindex = "-1" -> 0 - 1
      [] e.tabindex = "-2" -> 0 - 2
      [] OTHER             -> 0

\* HTML: element.focus() succeeds (native control, link, or any tabindex)
ScriptFocusable(e) ==
    \/ e.tag \in {"button", "input", "select", "textarea"}
    \/ e.href
    \/ e.tabindex # "none"

\* HTML: the element is reached by Tab (sequential focus navigation)
Tabbable(e) == ScriptFocusable(e) /\ TabindexValue(e) >= 0

\* the ascending sequence of the members of a finite set of integers
RECURSIVE SortedSeq(_)
SortedSeq(S) ==
    IF S = {} THEN <<>>
    ELSE LET m == CHOOSE x \in S : \A y \in S : x <= y
         IN <<m>> \o SortedSeq(S \ {m})

\* Array.from(container.querySelectorAll(focusableSelector)): document order
FocusableElements(kids) ==
    SortedSeq({i \in 1..Len(kids) : MatchesFocusableSelector(kids[i])})

\* focusableElements[0]
FirstElement(kids) ==
    LET f == FocusableElements(kids)
    IN IF Len(f) = 0 THEN Undefined ELSE f[1]

\* focusableElements[focusableElements.length - 1]
LastElement(kids) ==
    LET f == FocusableElements(kids)
    IN IF Len(f) = 0 THEN Undefined ELSE f[Len(f)]

\* x.focus() as the handler calls it: a TypeError when x is undefined
FocusCall(x) == [prevented |-> TRUE, focusCall |-> x, threw |-> (x = Undefined)]

NoEffect == [prevented |-> FALSE, focusCall |-> NoCall, threw |-> FALSE]

\* trapFocus with the two wrap targets exchanged
TrapFocusSwappedTargets(kids, active, key, shiftKey) ==
    IF key # "Tab" THEN NoEffect
    ELSE IF shiftKey
         THEN IF active = FirstElement(kids) THEN FocusCall(FirstElement(kids))
              ELSE NoEffect
         ELSE IF active = LastElement(kids) THEN FocusCall(LastElement(kids))
              ELSE NoEffect

\* trapFocus calling preventDefault on every Tab, before the boundary test
TrapFocusPreventsEveryTab(kids, active, key, shiftKey) ==
    IF key # "Tab" THEN NoEffect
    ELSE IF shiftKey
         THEN IF active = FirstElement(kids) THEN FocusCall(LastElement(kids))
              ELSE [NoEffect EXCEPT !.prevented = TRUE]
         ELSE IF active = LastElement(kids) THEN FocusCall(FirstElement(kids))
              ELSE [NoEffect EXCEPT !.prevented = TRUE]

\* trapFocus using the focusable set captured when the handler was
\* installed (the container was still empty) instead of querying it again
TrapFocusCachedAtInstall(kids, active, key, shiftKey) ==
    IF key # "Tab" THEN NoEffect
    ELSE IF shiftKey
         THEN IF active = FirstElement(<<>>) THEN FocusCall(LastElement(<<>>))
              ELSE NoEffect
         ELSE IF active = LastElement(<<>>) THEN FocusCall(FirstElement(<<>>))
              ELSE NoEffect

\* focusUtils.trapFocus(container, event): what the handler does to the event
TrapFocus(kids, active, key, shiftKey) ==
    IF key # "Tab" THEN NoEffect
    ELSE IF shiftKey
         THEN IF active = FirstElement(kids) THEN FocusCall(LastElement(kids))
              ELSE NoEffect
         ELSE IF active = LastElement(kids) THEN FocusCall(FirstElement(kids))
              ELSE NoEffect

(***************************************************************************)
(* The browser: sequential focus navigation over the document              *)
(*     <<Opener>> \o children \o <<After>>                                 *)
(***************************************************************************)
\* the position of a reference in document order (Body: before everything
\* going forward, after everything going backward)
DocPos(x, n, forward) ==
    CASE x = Opener -> 0
      [] x = After  -> n + 1
      [] x = Body   -> IF forward THEN 0 - 1 ELSE n + 2
      [] OTHER      -> x

RefAt(p, n) == IF p = 0 THEN Opener ELSE IF p = n + 1 THEN After ELSE p

TabStop(p, kids, opener) ==
    CASE p = 0             -> opener
      [] p = Len(kids) + 1 -> TRUE
      [] OTHER             -> Tabbable(kids[p])

\* the element the browser's default Tab / Shift+Tab action focuses; Body
\* when navigation runs off the end of the document
BrowserDefaultTab(kids, opener, active, shiftKey) ==
    LET n == Len(kids)
        here == DocPos(active, n, ~shiftKey)
        stops == {p \in 0..(n + 1) : TabStop(p, kids, opener)}
        ahead == {p \in stops : IF shiftKey THEN p < here ELSE p > here}
    IN IF ahead = {} THEN Body
       ELSE IF shiftKey
            THEN RefAt(CHOOSE p \in ahead : \A q \in ahead : q <= p, n)
            ELSE RefAt(CHOOSE p \in ahead : \A q \in ahead : p <= q, n)

\* is the referenced element in the document
Attached(x, opener) ==
    x # Detached /\ x # Null /\ x # Undefined /\ (x = Opener => opener)

\* HTML: where focus is after target.focus().  focus() on an element that is
\* not in the document, or that is not focusable (the body, a plain div),
\* does nothing
FocusResult(target, kids, opener, active) ==
    CASE target = NoCall                -> active
      [] ~Attached(target, opener)      -> active
      [] target = Body                  -> active
      [] target \in 1..Len(kids)        ->
             IF ScriptFocusable(kids[target]) THEN target ELSE active
      [] OTHER                          -> target

\* where focus is after a keydown the trap handler has seen: the handler's
\* own focus() call, else the browser's default action unless prevented
FocusAfterKey(kids, opener, active, key, shiftKey) ==
    LET r == TrapFocus(kids, active, key, shiftKey)
    IN IF r.focusCall # NoCall
       THEN IF r.threw THEN active ELSE FocusResult(r.focusCall, kids, opener, active)
       ELSE IF r.prevented \/ key # "Tab" THEN active
       ELSE BrowserDefaultTab(kids, opener, active, shiftKey)

Evt(op, key, shiftKey, before, r) ==
    [op |-> op, key |-> key, shiftKey |-> shiftKey, before |-> before,
     prevented |-> r.prevented, focusCall |-> r.focusCall, threw |-> r.threw]

NoEvt == Evt("none", "", FALSE, Body, NoEffect)

Keys == {"Tab", "Escape"}

\* the focus operations leave the announcer and the shortcut hook alone
FocusFrame ==
    UNCHANGED <<announcerVars, shortcutVars, touchVars, contrastVars,
                formVars, mediaVars, zoomVars, authVars>>

\* a keydown reaches the container's listener, which calls trapFocus; the
\* browser then performs the default action unless it was prevented
KeyDown ==
    \E key \in Keys, shiftKey \in BOOLEAN :
        /\ activeElement' =
               FocusAfterKey(children, openerAttached, activeElement, key, shiftKey)
        /\ lastEvt' = Evt("keydown", key, shiftKey, activeElement,
                          TrapFocus(children, activeElement, key, shiftKey))
        /\ UNCHANGED <<children, openerAttached, previousFocus>>
        /\ FocusFrame

\* the user focuses an element with the pointer (any element focus() works on)
PointerFocus ==
    \E x \in (1..Len(children)) \cup {Opener, After} :
        /\ x \in 1..Len(children) => ScriptFocusable(children[x])
        /\ x = Opener => openerAttached
        /\ activeElement' = x
        /\ lastEvt' = NoEvt
        /\ UNCHANGED <<children, openerAttached, previousFocus>>
        /\ FocusFrame

\* a reference after an element was inserted at position p
ShiftInsert(x, p) == IF x >= p THEN x + 1 ELSE x

\* a reference after the element at position p was removed
ShiftRemove(x, p, gone) == IF x = p THEN gone ELSE IF x > p THEN x - 1 ELSE x

InsertAt(s, p, e) == SubSeq(s, 1, p - 1) \o <<e>> \o SubSeq(s, p, Len(s))

RemoveAt(s, p) == SubSeq(s, 1, p - 1) \o SubSeq(s, p + 1, Len(s))

\* the host inserts an element into the container
InsertElement ==
    \E p \in 1..(Len(children) + 1), e \in ElementKinds :
        /\ Len(children) < MaxLen
        /\ children' = InsertAt(children, p, e)
        /\ activeElement' = ShiftInsert(activeElement, p)
        /\ previousFocus' = ShiftInsert(previousFocus, p)
        /\ lastEvt' = NoEvt
        /\ UNCHANGED openerAttached
        /\ FocusFrame

\* the host removes an element from the container; a focused element that
\* leaves the document loses focus to the body
RemoveElement ==
    \E p \in 1..Len(children) :
        /\ children' = RemoveAt(children, p)
        /\ activeElement' = ShiftRemove(activeElement, p, Body)
        /\ previousFocus' = ShiftRemove(previousFocus, p, Detached)
        /\ lastEvt' = NoEvt
        /\ UNCHANGED openerAttached
        /\ FocusFrame

\* focusFirstElement without its "if (firstFocusable)" guard
FocusFirstElementUnguarded(kids) ==
    [prevented |-> FALSE, focusCall |-> FirstElement(kids),
     threw |-> (FirstElement(kids) = Undefined)]

\* focusUtils.focusFirstElement(container)
FocusFirstElement(kids) ==
    LET f == FocusableElements(kids)
    IN IF Len(f) > 0 THEN [prevented |-> FALSE, focusCall |-> f[1], threw |-> FALSE]
       ELSE NoEffect

\* the host opens the container: it records document.activeElement and calls
\* focusFirstElement
Activate ==
    LET r == FocusFirstElement(children)
    IN /\ previousFocus' = activeElement
       /\ activeElement' =
              IF r.threw THEN activeElement
              ELSE FocusResult(r.focusCall, children, openerAttached, activeElement)
       /\ lastEvt' = Evt("activate", "", FALSE, activeElement, r)
       /\ UNCHANGED <<children, openerAttached>>
       /\ FocusFrame

\* restoreFocus without its null guard
RestoreFocusUnguarded(element) ==
    [prevented |-> FALSE, focusCall |-> element, threw |-> (element = Null)]

\* focusUtils.restoreFocus(element): if (element && element.focus) element.focus()
RestoreFocus(element) ==
    IF element # Null
    THEN [prevented |-> FALSE, focusCall |-> element, threw |-> FALSE]
    ELSE NoEffect

\* the host closes the container: restoreFocus(previously focused element)
Deactivate ==
    LET r == RestoreFocus(previousFocus)
    IN /\ activeElement' = FocusResult(r.focusCall, children, openerAttached, activeElement)
       /\ lastEvt' = Evt("restore", "", FALSE, activeElement, r)
       /\ previousFocus' = previousFocus
       /\ UNCHANGED <<children, openerAttached>>
       /\ FocusFrame

\* the opener leaves the document while the container is open
DetachOpener ==
    /\ openerAttached
    /\ openerAttached' = FALSE
    /\ activeElement' = IF activeElement = Opener THEN Body ELSE activeElement
    /\ lastEvt' = NoEvt
    /\ UNCHANGED <<children, previousFocus>>
    /\ FocusFrame

(***************************************************************************)
(* Status announcer: useScreenReaderAnnouncement                           *)
(***************************************************************************)
Messages == {"X", "Y"}

Priorities == {"polite", "assertive"}

\* A11Y_CONSTANTS.ANNOUNCEMENT_TIMEOUT
ANNOUNCEMENT_TIMEOUT == 1000

\* A11Y_CONSTANTS.URGENT_ANNOUNCEMENT_TIMEOUT
URGENT_ANNOUNCEMENT_TIMEOUT == 2000

\* const timeout = priority === 'assertive' ? 2000 : 1000
Timeout(priority) ==
    IF priority = "assertive" THEN URGENT_ANNOUNCEMENT_TIMEOUT ELSE ANNOUNCEMENT_TIMEOUT

\* if (!message) return null
NoLiveRegion == [role |-> "", ariaLive |-> "", text |-> ""]

\* <ScreenReaderAnnouncement message priority />: the live region rendered
ScreenReaderAnnouncement(message, priority) ==
    IF message = "" THEN NoLiveRegion
    ELSE [role |-> IF priority = "assertive" THEN "alert" ELSE "status",
          ariaLive |-> priority,
          text |-> message]

\* AnnouncementComponent: () => <ScreenReaderAnnouncement message={announcement} />
\* (no priority prop is passed, so the component's default applies)
AnnouncementComponent(message) == ScreenReaderAnnouncement(message, "polite")

\* the number of live-region changes a state update from old to new makes
\* (React drops a state update to the value the state already has)
Mutations(old, new) == IF new # old THEN 1 ELSE 0

NoAnnounce == [gen |-> 0, msg |-> "", priority |-> "polite", at |-> 0, cleared |-> FALSE]

AnnOp(op, gen, before, mutations) ==
    [op |-> op, gen |-> gen, before |-> before, mutations |-> mutations]

AnnouncerIdle ==
    /\ announcement = ""
    /\ timers = {}
    /\ now = 0
    /\ lastAnnounce = NoAnnounce
    /\ lastOp = AnnOp("none", 0, "", 0)

AnnouncerFrame ==
    UNCHANGED <<focusVars, shortcutVars, touchVars, contrastVars,
                formVars, mediaVars, zoomVars, authVars>>

\* announce with a slot that keeps the outstanding message (first write wins)
AnnounceKeepsPending(message, priority) ==
    /\ lastAnnounce.gen < MaxAnnounces
    /\ announcement' = IF announcement = "" THEN message ELSE announcement
    /\ timers' = timers \cup {[due |-> now + Timeout(priority), gen |-> lastAnnounce.gen + 1]}
    /\ lastAnnounce' = [gen |-> lastAnnounce.gen + 1, msg |-> message,
                        priority |-> priority, at |-> now, cleared |-> FALSE]
    /\ lastOp' = AnnOp("announce", lastAnnounce.gen + 1, announcement,
                       Mutations(announcement, announcement'))
    /\ UNCHANGED now
    /\ AnnouncerFrame

\* announce(message, priority): setAnnouncement(message), then
\* setTimeout(() => setAnnouncement(''), timeout)
Announce(message, priority) ==
    /\ lastAnnounce.gen < MaxAnnounces
    /\ announcement' = message
    /\ timers' = timers \cup {[due |-> now + Timeout(priority), gen |-> lastAnnounce.gen + 1]}
    /\ lastAnnounce' = [gen |-> lastAnnounce.gen + 1, msg |-> message,
                        priority |-> priority, at |-> now, cleared |-> FALSE]
    /\ lastOp' = AnnOp("announce", lastAnnounce.gen + 1, announcement,
                       Mutations(announcement, announcement'))
    /\ UNCHANGED now
    /\ AnnouncerFrame

\* clearAnnouncement(): setAnnouncement('')
ClearAnnouncement ==
    /\ announcement' = ""
    /\ lastAnnounce' = [lastAnnounce EXCEPT !.cleared = TRUE]
    /\ lastOp' = AnnOp("clear", 0, announcement, Mutations(announcement, ""))
    /\ UNCHANGED <<timers, now>>
    /\ AnnouncerFrame

\* a setTimeout callback runs: () => setAnnouncement('').  Callbacks run in
\* the order they fall due; there is no handle that cancels one.
TimerFire ==
    \E t \in timers :
        /\ t.due <= now
        /\ \A u \in timers : t.due <= u.due
        /\ announcement' = ""
        /\ timers' = timers \ {t}
            /\ lastOp' = AnnOp("timer", t.gen, announcement, Mutations(announcement, ""))
        /\ UNCHANGED <<now, lastAnnounce>>
        /\ AnnouncerFrame

\* time passes; a callback that is due runs before the clock moves on
Tick ==
    /\ now < MaxTime
    /\ \A t \in timers : t.due > now
    /\ now' = now + TickMs
    /\ lastOp' = AnnOp("tick", 0, announcement, 0)
    /\ UNCHANGED <<announcement, timers, lastAnnounce>>
    /\ AnnouncerFrame

(***************************************************************************)
(* Keyboard shortcuts: useKeyboardShortcuts                                *)
(***************************************************************************)
\* const shortcuts: KeyboardShortcut[]; mods holds the optional modifier
\* fields the literal sets to true (the others are undefined)
Shortcuts ==
    << [key |-> "1", mods |-> {"altKey"},  description |-> "Go to Home page"],
       [key |-> "2", mods |-> {"altKey"},  description |-> "Go to Request Form"],
       [key |-> "3", mods |-> {"altKey"},  description |-> "Go to Request History"],
       [key |-> "m", mods |-> {"altKey"},  description |-> "Skip to main content"],
       [key |-> "s", mods |-> {"ctrlKey"}, description |-> "Submit current form (Ctrl+S)"],
       [key |-> "/", mods |-> {},          description |-> "Show keyboard shortcuts help"] >>

\* String.prototype.toLowerCase on the key names of the model
ToLowerCase(k) ==
    CASE k = "M" -> "m"
      [] k = "S" -> "s"
      [] OTHER   -> k

\* !!shortcut.ctrlKey etc.: an absent (undefined) modifier field is false
Flag(shortcut, name) == name \in shortcut.mods

\* the predicate of shortcuts.find with the shift comparison left out
MatchesIgnoringShift(shortcut, event) ==
    /\ ToLowerCase(shortcut.key) = ToLowerCase(event.key)
    /\ Flag(shortcut, "ctrlKey") = event.ctrlKey
    /\ Flag(shortcut, "altKey") = event.altKey

\* the predicate of shortcuts.find
Matches(shortcut, event) ==
    /\ ToLowerCase(shortcut.key) = ToLowerCase(event.key)
    /\ Flag(shortcut, "ctrlKey") = event.ctrlKey
    /\ Flag(shortcut, "altKey") = event.altKey
    /\ Flag(shortcut, "shiftKey") = event.shiftKey

\* shortcuts.find(...): the index of the first matching shortcut, 0 for undefined
MatchingShortcut(event) ==
    LET hits == {i \in 1..Len(Shortcuts) : Matches(Shortcuts[i], event)}
    IN IF hits = {} THEN 0 ELSE CHOOSE i \in hits : \A j \in hits : i <= j

\* An event target: its tag, its own contenteditable attribute, and whether
\* its parent is editable.
PlainDiv == [tagName |-> "DIV", contenteditable |-> FALSE, parentEditable |-> FALSE]

Targets ==
    { PlainDiv,
      [tagName |-> "BUTTON",   contenteditable |-> FALSE, parentEditable |-> FALSE],
      [tagName |-> "INPUT",    contenteditable |-> FALSE, parentEditable |-> FALSE],
      [tagName |-> "TEXTAREA", contenteditable |-> FALSE, parentEditable |-> FALSE],
      [tagName |-> "DIV",      contenteditable |-> TRUE,  parentEditable |-> FALSE],
      [tagName |-> "SPAN",     contenteditable |-> FALSE, parentEditable |-> TRUE] }

\* HTMLElement.isContentEditable: the element is an editing host or inherits
\* editability from its parent
IsContentEditable(target) == target.contenteditable \/ target.parentEditable

\* the typing guard with the isContentEditable test left out
TypingTargetTagsOnly(target) == target.tagName = "INPUT" \/ target.tagName = "TEXTAREA"

\* target.tagName === 'INPUT' || target.tagName === 'TEXTAREA' || target.isContentEditable
TypingTarget(target) ==
    \/ target.tagName = "INPUT"
    \/ target.tagName = "TEXTAREA"
    \/ IsContentEditable(target)

KeyNames == {"1", "2", "3", "m", "M", "s", "/", "x"}

AllKeyEvents ==
    [key : KeyNames, ctrlKey : BOOLEAN, altKey : BOOLEAN, shiftKey : BOOLEAN,
     target : Targets]

\* the key events of the model: every key and modifier combination on a
\* plain element, and on every other target the combinations of a
\* registered shortcut
KeyEvents ==
    {e \in AllKeyEvents :
        \/ e.target = PlainDiv
        \/ \E i \in 1..Len(Shortcuts) :
               /\ ToLowerCase(Shortcuts[i].key) = ToLowerCase(e.key)
               /\ Shortcuts[i].mods =
                      {m \in {"ctrlKey", "altKey", "shiftKey"} :
                          \/ (m = "ctrlKey" /\ e.ctrlKey)
                          \/ (m = "altKey" /\ e.altKey)
                          \/ (m = "shiftKey" /\ e.shiftKey)}}

NoAction ==
    [ran |-> 0, navigate |-> "", toggle |-> FALSE, announce |-> "", effect |-> ""]

\* shortcut.action() of the i-th shortcut: the navigation, the toggle of the
\* help panel, and the message passed to announceShortcut ("" when none)
Action(i, visible, pg) ==
    CASE i = 1 -> [NoAction EXCEPT !.ran = i, !.navigate = "/",
                                   !.announce = "Navigating to Home page"]
      [] i = 2 -> [NoAction EXCEPT !.ran = i, !.navigate = "/request",
                                   !.announce = "Navigating to Request Form"]
      [] i = 3 -> [NoAction EXCEPT !.ran = i, !.navigate = "/history",
                                   !.announce = "Navigating to Request History"]
      [] i = 4 -> IF pg.main
                  THEN [NoAction EXCEPT !.ran = i, !.effect = "focus main-content",
                                        !.announce = "Skipped to main content"]
                  ELSE [NoAction EXCEPT !.ran = i]
      [] i = 5 -> IF pg.submit
                  THEN [NoAction EXCEPT !.ran = i, !.effect = "click submit",
                                        !.announce = "Form submitted"]
                  ELSE [NoAction EXCEPT !.ran = i]
      [] i = 6 -> [NoAction EXCEPT !.ran = i, !.toggle = TRUE,
                                   !.announce = IF visible THEN "Keyboard shortcuts hidden"
                                                ELSE "Keyboard shortcuts shown"]
      [] OTHER -> NoAction

\* handleKeyDown with preventDefault called before the shortcut is looked up
HandleKeyDownPreventsFirst(event, enabled, visible, pg) ==
    IF ~enabled THEN [matched |-> 0, prevented |-> FALSE, did |-> NoAction]
    ELSE IF TypingTarget(event.target)
         THEN [matched |-> 0, prevented |-> FALSE, did |-> NoAction]
         ELSE LET i == MatchingShortcut(event)
              IN IF i # 0
                 THEN [matched |-> i, prevented |-> TRUE, did |-> Action(i, visible, pg)]
                 ELSE [matched |-> 0, prevented |-> TRUE, did |-> NoAction]

\* handleKeyDown(event): which shortcut matched, whether preventDefault was
\* called, and what the action did
HandleKeyDown(event, enabled, visible, pg) ==
    IF ~enabled THEN [matched |-> 0, prevented |-> FALSE, did |-> NoAction]
    ELSE IF TypingTarget(event.target)
         THEN [matched |-> 0, prevented |-> FALSE, did |-> NoAction]
         ELSE LET i == MatchingShortcut(event)
              IN IF i # 0
                 THEN [matched |-> i, prevented |-> TRUE, did |-> Action(i, visible, pg)]
                 ELSE [matched |-> 0, prevented |-> FALSE, did |-> NoAction]

KeyOutcome(op, event, r) ==
    [op |-> op, evt |-> event, matched |-> r.matched, prevented |-> r.prevented,
     did |-> r.did]

NoKey ==
    KeyOutcome("none",
               [key |-> "x", ctrlKey |-> FALSE, altKey |-> FALSE, shiftKey |-> FALSE,
                target |-> PlainDiv],
               [matched |-> 0, prevented |-> FALSE, did |-> NoAction])

ShortcutIdle ==
    /\ isEnabled = TRUE
    /\ shortcutsVisible = FALSE
    /\ shortcutAnnouncement = ""
    /\ shortcutTimers = 0
    /\ route = "/"
    /\ page = [main |-> TRUE, submit |-> FALSE]
    /\ lastKey = NoKey

ShortcutFrame ==
    UNCHANGED <<focusVars, announcerVars, touchVars, contrastVars,
                formVars, mediaVars, zoomVars, authVars>>

\* a keydown reaches the document listener.  announceShortcut(message) sets
\* the slot and schedules its clear 2000 ms later.
ShortcutKeyDown ==
    \E event \in KeyEvents :
        \E r \in {HandleKeyDown(event, isEnabled, shortcutsVisible, page)} :
           /\ r.did.announce # "" => shortcutTimers < MaxShortcutTimers
           /\ lastKey' = KeyOutcome("keydown", event, r)
           /\ route' = IF r.did.navigate # "" THEN r.did.navigate ELSE route
           /\ shortcutsVisible' = IF r.did.toggle THEN ~shortcutsVisible ELSE shortcutsVisible
           /\ shortcutAnnouncement' =
                  IF r.did.announce # "" THEN r.did.announce ELSE shortcutAnnouncement
           /\ shortcutTimers' =
                  IF r.did.announce # "" THEN shortcutTimers + 1 ELSE shortcutTimers
           /\ UNCHANGED <<isEnabled, page>>
           /\ ShortcutFrame

\* setTimeout(() => setAnnouncement(''), 2000) of announceShortcut runs
ShortcutTimerFire ==
    /\ shortcutTimers > 0
    /\ shortcutTimers' = shortcutTimers - 1
    /\ shortcutAnnouncement' = ""
    /\ UNCHANGED <<isEnabled, shortcutsVisible, route, page, lastKey>>
    /\ ShortcutFrame

(***************************************************************************)
(* Touch targets: validateTouchTarget / auditTouchTargets                  *)
(***************************************************************************)
\* TOUCH_TARGET_SIZE.MINIMUM
TOUCH_TARGET_SIZE_MINIMUM == 44

\* A length of getBoundingClientRect() in CSS pixels: a whole number of
\* pixels, plus half a pixel when half is TRUE (boxes may be fractional).
Px(whole, half) == [whole |-> whole, half |-> half]

\* rect.width >= n for a whole number n
AtLeastPx(len, n) == len.whole >= n

\* Math.round(len): a half rounds up
MathRound(len) == IF len.half THEN len.whole + 1 ELSE len.whole

\* the boxes of the model: not laid out (0x0), 43x44, 44x43, 44x44,
\* 43.5x44, 43x43 and an empty box of full height (0x48)
Boxes ==
    { <<Px(0, FALSE),  Px(0, FALSE)>>,
      <<Px(43, FALSE), Px(44, FALSE)>>,
      <<Px(44, FALSE), Px(43, FALSE)>>,
      <<Px(44, FALSE), Px(44, FALSE)>>,
      <<Px(43, TRUE),  Px(44, FALSE)>>,
      <<Px(43, FALSE), Px(43, FALSE)>>,
      <<Px(0, FALSE),  Px(48, FALSE)>> }

\* the elements of the model: a button, a div with role="button", and a
\* text input (which the audit's selector does not match)
TouchKinds ==
    { [tagName |-> "BUTTON", role |-> "",       type |-> ""],
      [tagName |-> "DIV",    role |-> "button", type |-> ""],
      [tagName |-> "INPUT",  role |-> "",       type |-> "text"] }

TouchElement(kind, box) ==
    [tagName |-> kind.tagName, role |-> kind.role, type |-> kind.type,
     width |-> box[1], height |-> box[2]]

TouchElements == {TouchElement(k, b) : k \in TouchKinds, b \in Boxes}

\* 'button, [role="button"], a, input[type="button"], input[type="submit"],
\*  input[type="checkbox"], input[type="radio"]'
MatchesInteractiveSelector(e) ==
    \/ e.tagName = "BUTTON"
    \/ e.role = "button"
    \/ e.tagName = "A"
    \/ (e.tagName = "INPUT" /\ e.type \in {"button", "submit", "checkbox", "radio"})

\* `Increase <axis> to at least ${MINIMUM}px (current: ${Math.round(len)}px)`
Recommendation(axis, len) ==
    [axis |-> axis, minimum |-> TOUCH_TARGET_SIZE_MINIMUM, current |-> MathRound(len)]

\* validateTouchTarget with > in place of >=
ValidateTouchTargetStrict(element) ==
    LET isWidthValid == element.width.whole > TOUCH_TARGET_SIZE_MINIMUM
                        \/ (element.width.whole = TOUCH_TARGET_SIZE_MINIMUM
                            /\ element.width.half)
        isHeightValid == element.height.whole > TOUCH_TARGET_SIZE_MINIMUM
                         \/ (element.height.whole = TOUCH_TARGET_SIZE_MINIMUM
                             /\ element.height.half)
    IN [isValid |-> isWidthValid /\ isHeightValid,
        actualSize |-> [width |-> element.width, height |-> element.height],
        recommendations |->
            (IF isWidthValid THEN <<>> ELSE <<Recommendation("width", element.width)>>)
            \o (IF isHeightValid THEN <<>>
                ELSE <<Recommendation("height", element.height)>>)]

\* validateTouchTarget(element)
ValidateTouchTarget(element) ==
    LET isWidthValid == AtLeastPx(element.width, TOUCH_TARGET_SIZE_MINIMUM)
        isHeightValid == AtLeastPx(element.height, TOUCH_TARGET_SIZE_MINIMUM)
    IN [isValid |-> isWidthValid /\ isHeightValid,
        actualSize |-> [width |-> element.width, height |-> element.height],
        recommendations |->
            (IF isWidthValid THEN <<>> ELSE <<Recommendation("width", element.width)>>)
            \o (IF isHeightValid THEN <<>>
                ELSE <<Recommendation("height", element.height)>>)]

\* document.querySelectorAll(...): the matching elements in document order
InteractiveElements(d) ==
    SortedSeq({i \in 1..Len(d) : MatchesInteractiveSelector(d[i])})

\* the forEach loop with compliant++ placed before the test of isValid
RECURSIVE AuditForEachCountsEvery(_, _, _, _)
AuditForEachCountsEvery(els, d, k, acc) ==
    IF k > Len(els) THEN acc
    ELSE LET validation == ValidateTouchTarget(d[els[k]])
             counted == [acc EXCEPT !.compliant = @ + 1]
         IN AuditForEachCountsEvery(els, d, k + 1,
                IF validation.isValid
                THEN counted
                ELSE [counted EXCEPT !.issues =
                          Append(@, [element |-> els[k],
                                     tagName |-> d[els[k]].tagName,
                                     issues |-> validation.recommendations])])

\* interactiveElements.forEach(...) from the k-th element on; acc holds the
\* compliant counter and the issues pushed so far
RECURSIVE AuditForEach(_, _, _, _)
AuditForEach(els, d, k, acc) ==
    IF k > Len(els) THEN acc
    ELSE LET validation == ValidateTouchTarget(d[els[k]])
         IN AuditForEach(els, d, k + 1,
                IF validation.isValid
                THEN [acc EXCEPT !.compliant = @ + 1]
                ELSE [acc EXCEPT !.issues =
                          Append(@, [element |-> els[k],
                                     tagName |-> d[els[k]].tagName,
                                     issues |-> validation.recommendations])])

AuditReport(els, acc) ==
    [total |-> Len(els), compliant |-> acc.compliant, issues |-> acc.issues]

\* auditTouchTargets leaving out the elements that have no box yet
AuditTouchTargetsSkipsUnmeasured(d) ==
    LET els == SortedSeq({i \in 1..Len(d) :
                   /\ MatchesInteractiveSelector(d[i])
                   /\ (d[i].width # Px(0, FALSE) \/ d[i].height # Px(0, FALSE))})
    IN AuditReport(els, AuditForEach(els, d, 1, [compliant |-> 0, issues |-> <<>>]))

\* auditTouchTargets()
AuditTouchTargets(d) ==
    LET els == InteractiveElements(d)
    IN AuditReport(els, AuditForEach(els, d, 1, [compliant |-> 0, issues |-> <<>>]))

NoVerdict == [isValid |-> FALSE, actualSize |-> [width |-> Px(0, FALSE), height |-> Px(0, FALSE)],
              recommendations |-> <<>>]

NoReport == [total |-> 0, compliant |-> 0, issues |-> <<>>]

NoTouch == [op |-> "none", element |-> 0, verdict |-> NoVerdict, report |-> NoReport]

TouchIdle ==
    /\ dom = <<>>
    /\ lastTouch = NoTouch

TouchFrame ==
    UNCHANGED <<focusVars, announcerVars, shortcutVars, contrastVars,
                formVars, mediaVars, zoomVars, authVars>>

\* the browser lays an element out (again): its box changes
Layout ==
    \E i \in 1..Len(dom), box \in Boxes :
        /\ dom' = [dom EXCEPT ![i].width = box[1], ![i].height = box[2]]
        /\ lastTouch' = NoTouch
        /\ TouchFrame

\* a caller validates one element of the page
CallValidateTouchTarget ==
    \E i \in 1..Len(dom) :
        /\ lastTouch' = [NoTouch EXCEPT !.op = "validate", !.element = i,
                                        !.verdict = ValidateTouchTarget(dom[i])]
        /\ UNCHANGED dom
        /\ TouchFrame

\* a caller audits the page
CallAuditTouchTargets ==
    /\ lastTouch' = [NoTouch EXCEPT !.op = "audit", !.report = AuditTouchTargets(dom)]
    /\ UNCHANGED dom
    /\ TouchFrame

(***************************************************************************)
(* Colour contrast: hexToRgb / getLuminance / getContrastRatio /           *)
(* meetsWCAGAA / getRecommendedTextColor / validateColorCombination, and   *)
(* wcagValidation.hasValidContrast                                         *)
(*                                                                         *)
(* A colour string is the sequence of its characters.  Real numbers are    *)
(* fixed-point: a linearised channel is a count of 1/100000, a luminance a *)
(* count of 1/1000000, and a contrast ratio the fraction num/den of two    *)
(* luminances with 0.05 added.                                             *)
(***************************************************************************)
HexDigits ==
    <<"0", "1", "2", "3", "4", "5", "6", "7", "8", "9", "a", "b", "c", "d", "e", "f">>

\* the /i flag: an upper-case hex digit reads as its lower-case form
LowerHex(ch) ==
    CASE ch = "A" -> "a" [] ch = "B" -> "b" [] ch = "C" -> "c"
      [] ch = "D" -> "d" [] ch = "E" -> "e" [] ch = "F" -> "f"
      [] OTHER -> ch

\* [a-f\d] under /i
IsHexDigit(ch) == \E k \in 1..Len(HexDigits) : HexDigits[k] = LowerHex(ch)

HexValue(ch) == (CHOOSE k \in 1..Len(HexDigits) : HexDigits[k] = LowerHex(ch)) - 1

\* parseInt(two characters, 16)
ParseInt16(hi, lo) == HexValue(hi) * Len(HexDigits) + HexValue(lo)

\* the null that hexToRgb returns for a string the pattern rejects
NullRgb == [r |-> 0 - 1, g |-> 0 - 1, b |-> 0 - 1]

\* hexToRgb(hex): /^#?([a-f\d]{2})([a-f\d]{2})([a-f\d]{2})$/i
HexToRgb(hex) ==
    LET digits == IF Len(hex) > 0 /\ hex[1] = "#" THEN Tail(hex) ELSE hex
    IN IF Len(digits) = 6
          /\ \A k \in 1..Len(digits) : IsHexDigit(digits[k])
       THEN [r |-> ParseInt16(digits[1], digits[2]),
             g |-> ParseInt16(digits[3], digits[4]),
             b |-> ParseInt16(digits[5], digits[6])]
       ELSE NullRgb

\* c => { c = c / 255; return c <= 0.03928 ? c / 12.92
\*                                         : Math.pow((c + 0.055) / 1.055, 2.4) }
\* tabulated for the 256 channel values c = 0..255 (entry c + 1), in 1/100000
SRGB_LINEAR ==
    << 0, 30, 61, 91, 121, 152, 182, 212, 243, 273, 304, 335,
       368, 402, 439, 478, 518, 561, 605, 651, 700, 750, 802, 857,
       913, 972, 1033, 1096, 1161, 1229, 1298, 1370, 1444, 1521, 1600, 1681,
       1764, 1850, 1938, 2029, 2122, 2217, 2315, 2416, 2519, 2624, 2732, 2843,
       2956, 3071, 3190, 3310, 3434, 3560, 3689, 3820, 3955, 4092, 4231, 4374,
       4519, 4667, 4817, 4971, 5127, 5286, 5448, 5613, 5781, 5951, 6125, 6301,
       6480, 6663, 6848, 7036, 7227, 7421, 7619, 7819, 8022, 8228, 8438, 8650,
       8866, 9084, 9306, 9531, 9759, 9990, 10224, 10462, 10702, 10946, 11193, 11444,
       11697, 11954, 12214, 12477, 12744, 13014, 13287, 13563, 13843, 14126, 14413, 14703,
       14996, 15293, 15593, 15896, 16203, 16513, 16827, 17144, 17465, 17789, 18116, 18447,
       18782, 19120, 19462, 19807, 20156, 20508, 20864, 21223, 21586, 21953, 22323, 22697,
       23074, 23455, 23840, 24228, 24620, 25016, 25415, 25818, 26225, 26636, 27050, 27468,
       27889, 28315, 28744, 29177, 29614, 30054, 30499, 30947, 31399, 31855, 32314, 32778,
       33245, 33716, 34191, 34670, 35153, 35640, 36131, 36625, 37124, 37626, 38133, 38643,
       39157, 39676, 40198, 40724, 41254, 41789, 42327, 42869, 43415, 43966, 44520, 45079,
       45641, 46208, 46778, 47353, 47932, 48515, 49102, 49693, 50289, 50888, 51492, 52100,
       52712, 53328, 53948, 54572, 55201, 55834, 56471, 57112, 57758, 58408, 59062, 59720,
       60383, 61050, 61721, 62396, 63076, 63760, 64448, 65141, 65837, 66539, 67244, 67954,
       68669, 69387, 70110, 70838, 71569, 72306, 73046, 73791, 74540, 75294, 76052, 76815,
       77582, 78354, 79130, 79910, 80695, 81485, 82279, 83077, 83880, 84687, 85499, 86316,
       87137, 87962, 88792, 89627, 90466, 91310, 92158, 93011, 93869, 94731, 95597, 96469,
       97345, 98225, 99110, 100000 >>

\* getLuminance with the green weight mistyped (0.7512 for 0.7152)
GetLuminanceMistypedWeight(r, g, b) ==
    (2126 * SRGB_LINEAR[r + 1] + 7512 * SRGB_LINEAR[g + 1] + 722 * SRGB_LINEAR[b + 1])
        \div 1000

\* 0.2126 * rs + 0.7152 * gs + 0.0722 * bs, in 1/1000000
GetLuminance(r, g, b) ==
    (2126 * SRGB_LINEAR[r + 1] + 7152 * SRGB_LINEAR[g + 1] + 722 * SRGB_LINEAR[b + 1])
        \div 1000

Max(a, b) == IF a >= b THEN a ELSE b
Min(a, b) == IF a <= b THEN a ELSE b

\* a luminance plus 0.05, in 1/1000000
PlusFlare(lum) == lum + 50000

\* throw new Error('Invalid hex color format')
InvalidHex == "Invalid hex color format"

NoRatio == [num |-> 0, den |-> 1]

\* getContrastRatio without Math.max / Math.min: lum1 over lum2
GetContrastRatioUnordered(color1, color2) ==
    LET rgb1 == HexToRgb(color1)
        rgb2 == HexToRgb(color2)
    IN IF rgb1 = NullRgb \/ rgb2 = NullRgb
       THEN [error |-> InvalidHex, ratio |-> NoRatio]
       ELSE LET lum1 == GetLuminance(rgb1.r, rgb1.g, rgb1.b)
                lum2 == GetLuminance(rgb2.r, rgb2.g, rgb2.b)
            IN [error |-> "",
                ratio |-> [num |-> PlusFlare(lum1), den |-> PlusFlare(lum2)]]

\* getContrastRatio(color1, color2): the error thrown ("" when none) and the
\* ratio (brightest + 0.05) / (darkest + 0.05)
GetContrastRatio(color1, color2) ==
    LET rgb1 == HexToRgb(color1)
        rgb2 == HexToRgb(color2)
    IN IF rgb1 = NullRgb \/ rgb2 = NullRgb
       THEN [error |-> InvalidHex, ratio |-> NoRatio]
       ELSE LET lum1 == GetLuminance(rgb1.r, rgb1.g, rgb1.b)
                lum2 == GetLuminance(rgb2.r, rgb2.g, rgb2.b)
                brightest == Max(lum1, lum2)
                darkest == Min(lum1, lum2)
            IN [error |-> "",
                ratio |-> [num |-> PlusFlare(brightest), den |-> PlusFlare(darkest)]]

\* ratio >= h / 100
RatioAtLeast(ratio, h) == 100 * ratio.num >= h * ratio.den

\* Math.round(ratio * 100): the reported ratio in hundredths (a half rounds up)
RoundedHundredths(ratio) == (200 * ratio.num + ratio.den) \div (2 * ratio.den)

\* isLargeText ? 3 : 4.5 and isLargeText ? 4.5 : 7, in hundredths
RequiredRatio(large) == IF large THEN 300 ELSE 450
RequiredRatioAAA(large) == IF large THEN 450 ELSE 700

NoMeets == [passes |-> FALSE, ratio |-> 0, required |-> 0, level |-> ""]

\* meetsWCAGAA comparing the rounded ratio with the thresholds
MeetsWCAGAAOnRounded(fg, bg, large) ==
    LET r == GetContrastRatio(fg, bg)
        shown == RoundedHundredths(r.ratio)
    IN IF r.error # "" THEN [error |-> r.error, result |-> NoMeets]
       ELSE [error |-> "",
             result |->
                 [passes |-> shown >= RequiredRatio(large),
                  ratio |-> shown,
                  required |-> RequiredRatio(large),
                  level |-> IF shown >= RequiredRatioAAA(large) THEN "AAA"
                            ELSE IF shown >= RequiredRatio(large) THEN "AA"
                            ELSE "Fail"]]

\* meetsWCAGAA with the AAA test made after the AA test
MeetsWCAGAANeverAAA(fg, bg, large) ==
    LET r == GetContrastRatio(fg, bg)
    IN IF r.error # "" THEN [error |-> r.error, result |-> NoMeets]
       ELSE [error |-> "",
             result |->
                 [passes |-> RatioAtLeast(r.ratio, RequiredRatio(large)),
                  ratio |-> RoundedHundredths(r.ratio),
                  required |-> RequiredRatio(large),
                  level |-> IF RatioAtLeast(r.ratio, RequiredRatio(large)) THEN "AA"
                            ELSE IF RatioAtLeast(r.ratio, RequiredRatioAAA(large))
                                 THEN "AAA"
                            ELSE "Fail"]]

\* meetsWCAGAA(foreground, background, isLargeText); an error of
\* getContrastRatio propagates
MeetsWCAGAA(fg, bg, large) ==
    LET r == GetContrastRatio(fg, bg)
    IN IF r.error # "" THEN [error |-> r.error, result |-> NoMeets]
       ELSE [error |-> "",
             result |->
                 [passes |-> RatioAtLeast(r.ratio, RequiredRatio(large)),
                  ratio |-> RoundedHundredths(r.ratio),
                  required |-> RequiredRatio(large),
                  level |-> IF RatioAtLeast(r.ratio, RequiredRatioAAA(large)) THEN "AAA"
                            ELSE IF RatioAtLeast(r.ratio, RequiredRatio(large)) THEN "AA"
                            ELSE "Fail"]]

White == <<"#", "F", "F", "F", "F", "F", "F">>
Black == <<"#", "0", "0", "0", "0", "0", "0">>

\* a / b > c / d for positive integers, by comparing the integer parts and
\* then the inverted remainders (no product of two luminances is formed)
RECURSIVE FractionGreater(_, _, _, _)
FractionGreater(a, b, c, d) ==
    IF a \div b # c \div d THEN a \div b > c \div d
    ELSE IF a % b = 0 THEN FALSE
    ELSE IF c % d = 0 THEN TRUE
    ELSE FractionGreater(d, c % d, b, a % b)

\* whiteContrast > blackContrast for two ratios
RatioGreater(p, q) == FractionGreater(p.num, p.den, q.num, q.den)

\* getRecommendedTextColor with the comparison turned round
GetRecommendedTextColorInverted(backgroundColor) ==
    LET whiteContrast == GetContrastRatio(White, backgroundColor)
        blackContrast == GetContrastRatio(Black, backgroundColor)
    IN IF whiteContrast.error # "" THEN [error |-> whiteContrast.error, color |-> <<>>]
       ELSE [error |-> "",
             color |-> IF RatioGreater(blackContrast.ratio, whiteContrast.ratio)
                       THEN White ELSE Black]

\* getRecommendedTextColor(backgroundColor)
GetRecommendedTextColor(backgroundColor) ==
    LET whiteContrast == GetContrastRatio(White, backgroundColor)
        blackContrast == GetContrastRatio(Black, backgroundColor)
    IN IF whiteContrast.error # "" THEN [error |-> whiteContrast.error, color |-> <<>>]
       ELSE [error |-> "",
             color |-> IF RatioGreater(whiteContrast.ratio, blackContrast.ratio)
                       THEN White ELSE Black]

NoCombination == [isAccessible |-> FALSE, contrastRatio |-> 0, recommendation |-> <<>>]

\* validateColorCombination(foreground, background, context), where context
\* is 'large' when large is TRUE and 'normal' otherwise; recommendation is
\* the colour its text names, <<>> for undefined
ValidateColorCombination(fg, bg, large) ==
    LET m == MeetsWCAGAA(fg, bg, large)
    IN IF m.error # "" THEN [error |-> m.error, result |-> NoCombination]
       ELSE [error |-> "",
             result |->
                 [isAccessible |-> m.result.passes,
                  contrastRatio |-> m.result.ratio,
                  recommendation |->
                      IF ~m.result.passes THEN GetRecommendedTextColor(bg).color
                      ELSE <<>>]]

\* wcagValidation.hasValidContrast(foreground, background): warns on the
\* console and returns true
HasValidContrast(fg, bg) == [error |-> "", valid |-> TRUE]

\* the colour strings of the model: well-formed ones (upper and lower case,
\* with and without the leading #) and malformed ones (3 digits, a
\* non-hex digit, the empty string, a colour name)
WellFormedColors ==
    { White, Black,
      <<"#", "f", "f", "f", "f", "f", "f">>,
      <<"7", "6", "7", "6", "7", "6">>,
      <<"#", "7", "7", "7", "7", "7", "7">>,
      <<"#", "2", "2", "8", "9", "2", "2">>,
      <<"#", "5", "9", "5", "9", "5", "9">>,
      <<"#", "9", "4", "9", "4", "9", "4">> }

MalformedColors ==
    { <<"#", "F", "F", "F">>,
      <<"#", "1", "2", "3", "4", "5", "G">>,
      <<>>,
      <<"r", "e", "d">> }

Colors == WellFormedColors \cup MalformedColors

NoContrast ==
    [op |-> "none", error |-> "", ratio |-> NoRatio, meets |-> NoMeets,
     color |-> <<>>, combination |-> NoCombination, valid |-> FALSE]

ContrastIdle ==
    /\ foreground = White
    /\ background = Black
    /\ isLargeText = FALSE
    /\ lastContrast = NoContrast

ContrastFrame ==
    UNCHANGED <<focusVars, announcerVars, shortcutVars, touchVars,
                formVars, mediaVars, zoomVars, authVars>>

CallGetContrastRatio ==
    \E r \in {GetContrastRatio(foreground, background)} :
        /\ lastContrast' = [NoContrast EXCEPT !.op = "getContrastRatio",
                                              !.error = r.error, !.ratio = r.ratio]
        /\ UNCHANGED <<foreground, background, isLargeText>>
        /\ ContrastFrame

CallMeetsWCAGAA ==
    \E r \in {MeetsWCAGAA(foreground, background, isLargeText)} :
        /\ lastContrast' = [NoContrast EXCEPT !.op = "meetsWCAGAA",
                                              !.error = r.error, !.meets = r.result]
        /\ UNCHANGED <<foreground, background, isLargeText>>
        /\ ContrastFrame

CallGetRecommendedTextColor ==
    \E r \in {GetRecommendedTextColor(background)} :
        /\ lastContrast' = [NoContrast EXCEPT !.op = "getRecommendedTextColor",
                                              !.error = r.error, !.color = r.color]
        /\ UNCHANGED <<foreground, background, isLargeText>>
        /\ ContrastFrame

CallValidateColorCombination ==
    \E r \in {ValidateColorCombination(foreground, background, isLargeText)} :
        /\ lastContrast' = [NoContrast EXCEPT !.op = "validateColorCombination",
                                              !.error = r.error,
                                              !.combination = r.result]
        /\ UNCHANGED <<foreground, background, isLargeText>>
        /\ ContrastFrame

CallHasValidContrast ==
    \E r \in {HasValidContrast(foreground, background)} :
        /\ lastContrast' = [NoContrast EXCEPT !.op = "hasValidContrast",
                                              !.error = r.error, !.valid = r.valid]
        /\ UNCHANGED <<foreground, background, isLargeText>>
        /\ ContrastFrame

(***************************************************************************)
(* FormAnnouncement (FormEnhancements.tsx)                                 *)
(***************************************************************************)
\* setTimeout(() => setAnnouncement(''), 3000)
FORM_ANNOUNCEMENT_DELAY == 3000

\* the values of the message prop
FormMessages == {"", "A", "B"}

FormIdle ==
    /\ formMessage = ""
    /\ formAnnouncement = ""
    /\ formTimer = {}
    /\ formNow = 0
    /\ formSetAt = 0

FormFrame ==
    UNCHANGED <<focusVars, announcerVars, shortcutVars, touchVars, contrastVars,
                mediaVars, zoomVars, authVars>>

\* the parent renders the component with another message: React runs the
\* cleanup of the previous effect (clearTimeout, when that effect had set a
\* timer) and then the effect for the new message
SetFormMessage ==
    \E message \in FormMessages :
        /\ message # formMessage
        /\ formMessage' = message
        /\ IF message # ""
           THEN /\ formAnnouncement' = message
                /\ formTimer' = {formNow + FORM_ANNOUNCEMENT_DELAY}
                /\ formSetAt' = formNow
           ELSE /\ formTimer' = {}
                /\ UNCHANGED <<formAnnouncement, formSetAt>>
        /\ UNCHANGED formNow
        /\ FormFrame

\* the timer's callback runs: setAnnouncement('')
FormTimerFire ==
    \E due \in formTimer :
        /\ due <= formNow
        /\ formAnnouncement' = ""
        /\ formTimer' = {}
        /\ UNCHANGED <<formMessage, formNow, formSetAt>>
        /\ FormFrame

\* time passes, up to the moment the pending timer falls due; a callback
\* that is due runs before the clock moves on
FormTick ==
    /\ formNow < MaxFormTime
    /\ \A due \in formTimer : due > formNow
    /\ formNow' = IF \E due \in formTimer : due < formNow + TickMs
                  THEN CHOOSE due \in formTimer : TRUE
                  ELSE formNow + TickMs
    /\ UNCHANGED <<formMessage, formAnnouncement, formTimer, formSetAt>>
    /\ FormFrame

(***************************************************************************)
(* MediaUpload (FormEnhancements.tsx)                                      *)
(***************************************************************************)
Files == {"a.pdf", "b.png", "c.doc"}

\* the FileList of a drop or of the file dialog: one file or two
FileLists ==
    {<<f>> : f \in Files} \cup {<<f, g>> : f \in Files, g \in Files}

\* onFilesChange(files): what the parent was handed; isNull for null
FilesChange(files, isNull) == [called |-> TRUE, files |-> files, isNull |-> isNull]

NoFilesChange == [called |-> FALSE, files |-> <<>>, isNull |-> FALSE]

MediaIdle ==
    /\ dragActive = FALSE
    /\ uploadedFiles = <<>>
    /\ lastFilesChange = NoFilesChange

MediaFrame ==
    UNCHANGED <<focusVars, announcerVars, shortcutVars, touchVars, contrastVars,
                formVars, zoomVars, authVars>>

\* handleDrag: dragenter and dragover mark the drop zone, dragleave unmarks it
HandleDrag ==
    \E type \in {"dragenter", "dragover", "dragleave"} :
        /\ dragActive' = (type # "dragleave")
        /\ UNCHANGED <<uploadedFiles, lastFilesChange>>
        /\ MediaFrame

\* handleFiles(files): setUploadedFiles(prev => [...prev, ...fileArray]);
\* onFilesChange(files).  The new list and the call it makes.
HandleFiles(files) ==
    [uploaded |-> uploadedFiles \o files, change |-> FilesChange(files, FALSE)]

\* handleDrop: files are dropped on the drop zone
HandleDrop ==
    \E files \in FileLists :
        /\ Len(uploadedFiles) + Len(files) <= MaxFiles
        /\ dragActive' = FALSE
        /\ \E r \in {HandleFiles(files)} :
               /\ uploadedFiles' = r.uploaded
               /\ lastFilesChange' = r.change
        /\ MediaFrame

\* handleChange: files are chosen in the file dialog
HandleChange ==
    \E files \in FileLists :
        /\ Len(uploadedFiles) + Len(files) <= MaxFiles
        /\ \E r \in {HandleFiles(files)} :
               /\ uploadedFiles' = r.uploaded
               /\ lastFilesChange' = r.change
        /\ UNCHANGED dragActive
        /\ MediaFrame

\* uploadedFiles.filter((_, index) => index !== indexToRemove)
WithoutIndex(files, i) ==
    [k \in 1..(Len(files) - 1) |-> IF k < i THEN files[k] ELSE files[k + 1]]

\* removeFile(indexToRemove)
RemoveFile ==
    \E i \in 1..Len(uploadedFiles) :
        \E newFiles \in {WithoutIndex(uploadedFiles, i)} :
            /\ uploadedFiles' = newFiles
            /\ lastFilesChange' =
                   IF Len(newFiles) > 0 THEN FilesChange(newFiles, FALSE)
                   ELSE FilesChange(<<>>, TRUE)
            /\ UNCHANGED dragActive
            /\ MediaFrame

(***************************************************************************)
(* Zoom prevention: manageMobileFocus / enhanceForMobile                   *)
(***************************************************************************)
\* 'width=device-width, initial-scale=1, maximum-scale=1, user-scalable=no'
NoZoomContent == "width=device-width, initial-scale=1, maximum-scale=1, user-scalable=no"

\* the content the page's author gave the viewport meta tag
AuthoredContents == {"width=device-width, initial-scale=1", "width=device-width"}

NoZoomEvent == [op |-> "none", before |-> "", mobile |-> FALSE]

ZoomIdle ==
    /\ viewportContent = "width=device-width, initial-scale=1"
    /\ mobileViewport = TRUE
    /\ focusinHandlers = 0
    /\ fieldEnhanced = FALSE
    /\ fieldFocused = FALSE
    /\ blurListeners = <<>>
    /\ lastZoom = NoZoomEvent

ZoomFrame ==
    UNCHANGED <<focusVars, announcerVars, shortcutVars, touchVars, contrastVars,
                formVars, mediaVars, authVars>>

\* manageMobileFocus(): document.addEventListener('focusin', preventZoom)
\* with a new preventZoom closure
ManageMobileFocus ==
    /\ focusinHandlers < MaxZoomHandlers
    /\ focusinHandlers' = focusinHandlers + 1
    /\ UNCHANGED <<viewportContent, mobileViewport, fieldEnhanced, fieldFocused,
                   blurListeners, lastZoom>>
    /\ ZoomFrame

\* enhanceForMobile(field, { preventZoom: true })
EnhanceForMobile ==
    /\ ~fieldEnhanced
    /\ fieldEnhanced' = TRUE
    /\ UNCHANGED <<viewportContent, mobileViewport, focusinHandlers, fieldFocused,
                   blurListeners, lastZoom>>
    /\ ZoomFrame

\* the window is resized across the 768 px breakpoint
Resize ==
    /\ mobileViewport' = ~mobileViewport
    /\ UNCHANGED <<viewportContent, focusinHandlers, fieldEnhanced, fieldFocused,
                   blurListeners, lastZoom>>
    /\ ZoomFrame

\* k focus / focusin listeners run one after the other; each reads the
\* content as originalContent, sets the no-zoom content and adds a blur
\* listener holding what it read
RECURSIVE RunFocusListeners(_, _)
RunFocusListeners(k, st) ==
    IF k = 0 THEN st
    ELSE RunFocusListeners(k - 1,
             [content |-> NoZoomContent,
              listeners |-> Append(st.listeners, st.content)])

\* the field's blur listeners run in the order they were added:
\* if (originalContent) viewport.setAttribute('content', originalContent)
RECURSIVE RunBlurListeners(_, _)
RunBlurListeners(listeners, content) ==
    IF listeners = <<>> THEN content
    ELSE RunBlurListeners(Tail(listeners),
             IF Head(listeners) # "" THEN Head(listeners) ELSE content)

\* the field (an INPUT or TEXTAREA) receives focus: its own focus listener
\* runs, then the focusin listeners on the document
FocusField ==
    /\ ~fieldFocused
    /\ fieldFocused' = TRUE
    /\ \E r \in {IF mobileViewport
                 THEN RunFocusListeners(
                          focusinHandlers + (IF fieldEnhanced THEN 1 ELSE 0),
                          [content |-> viewportContent, listeners |-> blurListeners])
                 ELSE [content |-> viewportContent, listeners |-> blurListeners]} :
           /\ viewportContent' = r.content
           /\ blurListeners' = r.listeners
    /\ lastZoom' = [op |-> "focus", before |-> viewportContent, mobile |-> mobileViewport]
    /\ UNCHANGED <<mobileViewport, focusinHandlers, fieldEnhanced>>
    /\ ZoomFrame

\* the field loses focus: its blur listeners run and are removed
BlurField ==
    /\ fieldFocused
    /\ fieldFocused' = FALSE
    /\ viewportContent' = RunBlurListeners(blurListeners, viewportContent)
    /\ blurListeners' = <<>>
    /\ lastZoom' = [lastZoom EXCEPT !.op = "blur"]
    /\ UNCHANGED <<mobileViewport, focusinHandlers, fieldEnhanced>>
    /\ ZoomFrame

(***************************************************************************)
(* AuthProvider (AuthContext.tsx)                                          *)
(***************************************************************************)
\* user === null
NoUser == "null"

\* the user object login and register build
UserObj == "user 1"

AuthIdle ==
    /\ user = NoUser
    /\ storedSession = FALSE
    /\ pendingCalls = {}
    /\ authCalls = 0
    /\ lastLogout = -1
    /\ authBy = 0

AuthFrame ==
    UNCHANGED <<focusVars, announcerVars, shortcutVars, touchVars, contrastVars,
                formVars, mediaVars, zoomVars>>

\* login(email, password) is called and waits in its 1000 ms delay; valid
\* says whether the credentials are the accepted ones
Login ==
    \E valid \in BOOLEAN :
        /\ authCalls < MaxAuthCalls
        /\ authCalls' = authCalls + 1
        /\ pendingCalls' = pendingCalls \cup
               {[id |-> authCalls + 1, kind |-> "login", valid |-> valid]}
        /\ UNCHANGED <<user, storedSession, lastLogout, authBy>>
        /\ AuthFrame

\* register(data) is called and waits in its 1000 ms delay
Register ==
    /\ authCalls < MaxAuthCalls
    /\ authCalls' = authCalls + 1
    /\ pendingCalls' = pendingCalls \cup
           {[id |-> authCalls + 1, kind |-> "register", valid |-> TRUE]}
    /\ UNCHANGED <<user, storedSession, lastLogout, authBy>>
    /\ AuthFrame

\* the delay of a pending call completes; timers of equal delay run in the
\* order they were set.  setUser(userObj); sessionStorage.setItem(...)
CompleteCall ==
    \E call \in pendingCalls :
        /\ \A other \in pendingCalls : call.id <= other.id
        /\ pendingCalls' = pendingCalls \ {call}
        /\ IF call.kind = "register" \/ call.valid
           THEN /\ user' = UserObj
                /\ storedSession' = TRUE
                /\ authBy' = call.id
           ELSE UNCHANGED <<user, storedSession, authBy>>
        /\ UNCHANGED <<authCalls, lastLogout>>
        /\ AuthFrame

\* logout(): setUser(null); sessionStorage.removeItem('authUser')
Logout ==
    /\ user' = NoUser
    /\ storedSession' = FALSE
    /\ lastLogout' = authCalls
    /\ authBy' = 0
    /\ UNCHANGED <<pendingCalls, authCalls>>
    /\ AuthFrame

\* the components below are idle in the specifications of the others
OthersIdle == FormIdle /\ MediaIdle /\ ZoomIdle /\ AuthIdle

FocusIdle ==
    /\ children = <<>>
    /\ activeElement = Opener
    /\ openerAttached = TRUE
    /\ previousFocus = Null
    /\ lastEvt = NoEvt

FocusInit ==
    FocusIdle /\ AnnouncerIdle /\ ShortcutIdle /\ TouchIdle /\ ContrastIdle /\ OthersIdle

FocusNext ==
    \/ KeyDown
    \/ PointerFocus
    \/ InsertElement
    \/ RemoveElement

FocusSpec == FocusInit /\ [][FocusNext]_vars

\* the containers of the lifecycle specification: controls and plain text
LifecycleKinds ==
    { [tag |-> "button", href |-> FALSE, tabindex |-> "none"],
      [tag |-> "div",    href |-> FALSE, tabindex |-> "none"] }

SeqsUpTo(S, n) == UNION {[1..k -> S] : k \in 0..n}

LifecycleInit ==
    /\ children \in SeqsUpTo(LifecycleKinds, MaxLen)
    /\ activeElement = Opener
    /\ openerAttached = TRUE
    /\ previousFocus = Null
    /\ lastEvt = NoEvt
    /\ AnnouncerIdle
    /\ ShortcutIdle
    /\ TouchIdle
    /\ ContrastIdle
    /\ OthersIdle

LifecycleNext ==
    \/ Activate
    \/ KeyDown
    \/ PointerFocus
    \/ RemoveElement
    \/ DetachOpener
    \/ Deactivate

LifecycleSpec == LifecycleInit /\ [][LifecycleNext]_vars

(***************************************************************************)
(* Focus trap: properties                                                  *)
(***************************************************************************)
\* x is a member of the container's focusable set
InFocusableSet(x, kids) ==
    x \in 1..Len(kids) /\ MatchesFocusableSelector(kids[x])

\* x refers to an element (not to the body, null or a removed element)
IsElement(x, kids) == x \in (1..Len(kids)) \cup {Opener, After}

TabEvt == lastEvt.op = "keydown" /\ lastEvt.key = "Tab"

\* C1: with focus on a member of the container's focusable set, a Tab or
\* Shift+Tab leaves focus on a member of that set (focus never leaves the
\* container).
C1_FocusStaysInContainer ==
    (TabEvt /\ InFocusableSet(lastEvt.before, children))
        => InFocusableSet(activeElement, children)

\* C2: for a focusable set [e1..en], n >= 1: Tab on en focuses e1, Shift+Tab
\* on e1 focuses en, and in both cases the event's default is prevented.
C2_BoundaryWraps ==
    (TabEvt /\ Len(FocusableElements(children)) >= 1) =>
        /\ (~lastEvt.shiftKey /\ lastEvt.before = LastElement(children))
               => (activeElement = FirstElement(children) /\ lastEvt.prevented)
        /\ (lastEvt.shiftKey /\ lastEvt.before = FirstElement(children))
               => (activeElement = LastElement(children) /\ lastEvt.prevented)

\* a forward wrap over three focusable elements has happened
C2_Witness ==
    /\ TabEvt /\ ~lastEvt.shiftKey
    /\ Len(FocusableElements(children)) = 3
    /\ lastEvt.before = LastElement(children)
    /\ activeElement = FirstElement(children)
    /\ activeElement # lastEvt.before

\* C3: on a container with no focusable element, entering the container and
\* evaluating the trap are silent no-ops: no error, no focus() call, the key
\* event is not prevented, and entering leaves the focused element as it was.
C3_EmptyContainerNoOp ==
    FocusableElements(children) = <<>> =>
        /\ lastEvt.op = "keydown"
               => (~lastEvt.prevented /\ lastEvt.focusCall = NoCall /\ ~lastEvt.threw)
        /\ lastEvt.op = "activate"
               => (lastEvt.focusCall = NoCall /\ ~lastEvt.threw
                   /\ activeElement = lastEvt.before)

\* a non-empty container without focusable elements was entered and then
\* received a Tab
C3_Witness ==
    /\ Len(children) >= 1
    /\ FocusableElements(children) = <<>>
    /\ previousFocus = Opener
    /\ TabEvt

\* C4 as stated: focus is restored to the recorded element iff it is still
\* attached; for a detached element, or none recorded, no focus() call is
\* made and focus is left as it was.
C4_NoCallWhenDetached ==
    (lastEvt.op = "restore" /\ previousFocus # Body) =>
        IF Attached(previousFocus, openerAttached)
        THEN activeElement = previousFocus
        ELSE lastEvt.focusCall = NoCall /\ activeElement = lastEvt.before

\* C4 amended: focus() is called on the recorded element whenever one was
\* recorded, attached or not; focus ends on the recorded element when it is
\* an element still attached, and stays where it was otherwise.
C4_RestoreCallsFocusWhenRecorded ==
    lastEvt.op = "restore" =>
        /\ (lastEvt.focusCall # NoCall) <=> (previousFocus # Null)
        /\ lastEvt.focusCall \in {NoCall, previousFocus}
        /\ ~lastEvt.threw
        /\ IF IsElement(previousFocus, children) /\ Attached(previousFocus, openerAttached)
           THEN activeElement = previousFocus
           ELSE activeElement = lastEvt.before

\* restoreFocus was called with the opener after it left the document
C4_Witness ==
    /\ lastEvt.op = "restore"
    /\ previousFocus = Opener
    /\ ~openerAttached
    /\ lastEvt.focusCall = Opener
    /\ activeElement # Opener

\* C20: the trap leaves every other key event untouched: for a key other
\* than Tab, for Tab while focus is not on the last element, and for
\* Shift+Tab while focus is not on the first element, the default is not
\* prevented and the trap calls focus() on nothing; a key other than Tab
\* leaves the focused element where it was.
C20_OtherKeysUntouched ==
    (lastEvt.op = "keydown"
        /\ \/ lastEvt.key # "Tab"
           \/ (~lastEvt.shiftKey /\ lastEvt.before # LastElement(children))
           \/ (lastEvt.shiftKey /\ lastEvt.before # FirstElement(children)))
    => /\ ~lastEvt.prevented
       /\ lastEvt.focusCall = NoCall
       /\ ~lastEvt.threw
       /\ lastEvt.key # "Tab" => activeElement = lastEvt.before

\* Tab on the middle one of three focusable elements: the browser moved
\* focus to the next one and the trap did nothing
C20_Witness ==
    /\ TabEvt /\ ~lastEvt.shiftKey
    /\ Len(FocusableElements(children)) = 3
    /\ lastEvt.before = 2
    /\ activeElement = 3
    /\ ~lastEvt.prevented /\ lastEvt.focusCall = NoCall

\* C21: the focusable set is recomputed from the container's current
\* contents on every trap evaluation: whatever was inserted or removed
\* before a Tab event, the event wraps exactly when focus is on the last
\* (Shift+Tab: first) element of the container as it is now, and its target
\* is the first (last) element of the container as it is now.
C21_WrapTargetsFromCurrentContents ==
    TabEvt =>
        LET f == FocusableElements(children)
            from == IF lastEvt.shiftKey THEN FirstElement(children)
                    ELSE LastElement(children)
            to == IF lastEvt.shiftKey THEN LastElement(children)
                  ELSE FirstElement(children)
        IN /\ lastEvt.focusCall # NoCall <=> lastEvt.before = from
           /\ lastEvt.focusCall # NoCall => (Len(f) >= 1 /\ lastEvt.focusCall = to)

\* after three insertions the container holds a plain div between two
\* focusable elements, and Shift+Tab on the first wrapped to the third
C21_Witness ==
    /\ TabEvt /\ lastEvt.shiftKey
    /\ Len(children) = 3
    /\ Len(FocusableElements(children)) = 2
    /\ ~MatchesFocusableSelector(children[2])
    /\ lastEvt.before = 1
    /\ lastEvt.focusCall = 3
    /\ activeElement = 3

\* the element carries an explicit tab index that is negative
NegativeTabindex(e) == e.tabindex # "none" /\ TabindexValue(e) < 0

\* a native control, a link with a destination, or an element with an
\* explicit tab index
FocusableByKind(e) ==
    \/ e.tag \in {"button", "input", "select", "textarea"}
    \/ e.href
    \/ e.tabindex # "none"

\* C22: the focusable set holds exactly the native controls, the links with
\* a destination and the elements with a non-negative explicit tab index;
\* an element with a negative explicit tab index is never a member and is
\* never the element a wrap or an entry calls focus() on.
C22_NegativeTabindexNeverMember ==
    /\ \A i \in 1..Len(children) :
           InFocusableSet(i, children)
               <=> (FocusableByKind(children[i]) /\ ~NegativeTabindex(children[i]))
    /\ lastEvt.focusCall \in 1..Len(children)
           => ~NegativeTabindex(children[lastEvt.focusCall])

AnnouncerInit ==
    FocusIdle /\ AnnouncerIdle /\ ShortcutIdle /\ TouchIdle /\ ContrastIdle /\ OthersIdle

AnnouncerNext ==
    \/ \E message \in Messages, priority \in Priorities : Announce(message, priority)
    \/ ClearAnnouncement
    \/ TimerFire
    \/ Tick

AnnouncerSpec == AnnouncerInit /\ [][AnnouncerNext]_vars

(***************************************************************************)
(* Status announcer: properties                                            *)
(***************************************************************************)
\* the delay of the most recent announce call has not elapsed yet
WithinOwnDelay == now < lastAnnounce.at + Timeout(lastAnnounce.priority)

\* the clear callback scheduled by the most recent announce call has run
OwnTimerRan == \A t \in timers : t.gen # lastAnnounce.gen

\* C5: the slot is a single last-write-wins cell: right after announce(m, p)
\* it holds exactly m, and at any time it holds either nothing or the message
\* of the most recent announce call (no earlier message is kept or returns).
C5_LastWriteWins ==
    /\ lastOp.op = "announce" => announcement = lastAnnounce.msg
    /\ announcement \in {"", lastAnnounce.msg}
    /\ lastOp.op # "announce" => announcement \in {"", lastOp.before}

\* an announce call has replaced an outstanding message of another text
C5_Witness ==
    /\ lastOp.op = "announce"
    /\ lastOp.before # ""
    /\ lastOp.before # lastAnnounce.msg
    /\ announcement = lastAnnounce.msg

\* C6: after an announce call followed by no other call, the slot holds the
\* message at every instant before the priority's delay (1000 / 2000 ms) has
\* elapsed, and is empty once the delay has elapsed and its callback has run.
C6_HeldForOwnDelay ==
    (lastAnnounce.gen > 0 /\ ~lastAnnounce.cleared) =>
        /\ WithinOwnDelay => announcement = lastAnnounce.msg
        /\ (~WithinOwnDelay /\ OwnTimerRan) => announcement = ""

\* C7: when the callback of a superseded announce call runs while the newer
\* message's own delay has not elapsed, the clear is a no-op: the slot still
\* holds what it held (the newer message stays outstanding).
C7_StaleTimerIsNoOp ==
    (lastOp.op = "timer" /\ lastOp.gen # lastAnnounce.gen /\ WithinOwnDelay) =>
        announcement = lastOp.before

\* C8: announce("X") while "X" is still outstanding changes the live region
\* (to empty and back to "X"), so an observer sees the message a second time.
C8_RepeatIsObserved ==
    (lastOp.op = "announce" /\ lastOp.before = lastAnnounce.msg) =>
        lastOp.mutations >= 1

\* C26: while the message of an announce call is in the slot, the live
\* region the announcer renders has the urgency of that call: role alert and
\* aria-live assertive for an assertive message, role status and aria-live
\* polite for a polite one.
C26_RenderedWithAnnouncedUrgency ==
    (announcement # "" /\ announcement = lastAnnounce.msg) =>
        LET shown == AnnouncementComponent(announcement)
        IN /\ shown.text = announcement
           /\ shown.ariaLive = lastAnnounce.priority
           /\ shown.role = IF lastAnnounce.priority = "assertive" THEN "alert"
                           ELSE "status"

\* the hook is mounted with isEnabled true (the default) or false, on a
\* document that has or lacks the main landmark and a submit button
ShortcutInit ==
    /\ FocusIdle
    /\ AnnouncerIdle
    /\ TouchIdle
    /\ ContrastIdle
    /\ OthersIdle
    /\ isEnabled \in BOOLEAN
    /\ shortcutsVisible = FALSE
    /\ shortcutAnnouncement = ""
    /\ shortcutTimers = 0
    /\ route = "/"
    /\ page \in [main : BOOLEAN, submit : BOOLEAN]
    /\ lastKey = NoKey

ShortcutNext ==
    \/ ShortcutKeyDown
    \/ ShortcutTimerFire

ShortcutSpec == ShortcutInit /\ [][ShortcutNext]_vars

(***************************************************************************)
(* Keyboard shortcuts: properties                                          *)
(***************************************************************************)
KeyEvt == lastKey.op = "keydown"

\* the target is a text field, a text area, an element accepting free-form
\* text, or an element inside one
TextEntryTarget(target) ==
    \/ target.tagName \in {"INPUT", "TEXTAREA"}
    \/ target.contenteditable
    \/ target.parentEditable

AltOne(e) ==
    e.key = "1" /\ e.altKey /\ ~e.ctrlKey /\ ~e.shiftKey

\* C9: a key event on a text-entry target (or inside one) is never
\* dispatched: no action runs, the default is not prevented, nothing is
\* announced, even when the chord is a registered one; Alt+1 on a plain div
\* runs the first shortcut's action.
C9_NoDispatchWhileTyping ==
    KeyEvt =>
        /\ TextEntryTarget(lastKey.evt.target)
               => (lastKey.matched = 0 /\ ~lastKey.prevented /\ lastKey.did = NoAction)
        /\ (AltOne(lastKey.evt) /\ lastKey.evt.target = PlainDiv /\ isEnabled)
               => (lastKey.did.ran = 1 /\ lastKey.did.navigate = "/" /\ route = "/")

\* Alt+1 arrived inside an editable region while another page was shown
C9_Witness ==
    /\ KeyEvt /\ isEnabled
    /\ AltOne(lastKey.evt)
    /\ lastKey.evt.target.tagName = "SPAN" /\ lastKey.evt.target.parentEditable
    /\ route = "/history"
    /\ lastKey.did = NoAction

\* the matching rule: same key ignoring case, and the event's ctrl, alt and
\* shift flags equal the binding's, an absent flag counting as false
ChordOf(shortcut, e) ==
    /\ ToLowerCase(shortcut.key) = ToLowerCase(e.key)
    /\ e.ctrlKey = ("ctrlKey" \in shortcut.mods)
    /\ e.altKey = ("altKey" \in shortcut.mods)
    /\ e.shiftKey = ("shiftKey" \in shortcut.mods)

\* C10: a dispatched key event matches a binding iff key (ignoring case) and
\* the ctrl, alt and shift flags are those of the binding; an event holding
\* a further one of these modifiers matches nothing.
C10_MatchIffKeyAndFlags ==
    (KeyEvt /\ isEnabled /\ ~TextEntryTarget(lastKey.evt.target)) =>
        /\ \A i \in 1..Len(Shortcuts) :
               (lastKey.matched = i) <=> ChordOf(Shortcuts[i], lastKey.evt)
        /\ (lastKey.matched = 0) <=>
               ~(\E i \in 1..Len(Shortcuts) : ChordOf(Shortcuts[i], lastKey.evt))
        /\ lastKey.prevented <=> (lastKey.matched # 0)

\* Alt+M (upper case from Caps Lock) matched the "m" binding
C10_Witness ==
    /\ KeyEvt
    /\ lastKey.evt.key = "M" /\ lastKey.evt.altKey
    /\ lastKey.matched = 4
    /\ lastKey.prevented

\* C11: on every matched, non-suppressed key event the dispatcher prevents
\* the default, runs the matched binding's action, and then announces that
\* binding's description, for each binding and whatever the page holds.
C11_AnnouncesDescription ==
    (KeyEvt /\ lastKey.matched # 0) =>
        /\ lastKey.prevented
        /\ lastKey.did.ran = lastKey.matched
        /\ lastKey.did.announce = Shortcuts[lastKey.matched].description

\* the event is the chord of no registered binding
NoChord(e) == ~(\E i \in 1..Len(Shortcuts) : ChordOf(Shortcuts[i], e))

\* C12: a key event that matches no binding passes through: its default is
\* not prevented, no action runs, and the step leaves the announcement slot,
\* the visibility of the shortcut help and the route as they were.
C12_UnmatchedPassesThrough ==
    [][(lastKey' # lastKey /\ lastKey'.op = "keydown" /\ NoChord(lastKey'.evt))
          => /\ ~lastKey'.prevented
             /\ lastKey'.did = NoAction
             /\ UNCHANGED <<shortcutAnnouncement, shortcutsVisible, route,
                            shortcutTimers>>]_vars

\* Alt+X arrived on a plain element while the help was shown and its
\* announcement was still in the slot
C12_Witness ==
    /\ KeyEvt /\ isEnabled
    /\ lastKey.evt.key = "x" /\ lastKey.evt.altKey
    /\ lastKey.evt.target = PlainDiv
    /\ lastKey.matched = 0 /\ ~lastKey.prevented
    /\ shortcutsVisible
    /\ shortcutAnnouncement = "Keyboard shortcuts shown"

(***************************************************************************)
(* Touch targets: specification and properties                             *)
(***************************************************************************)
TouchInit ==
    /\ FocusIdle
    /\ AnnouncerIdle
    /\ ShortcutIdle
    /\ ContrastIdle
    /\ OthersIdle
    /\ dom \in SeqsUpTo(TouchElements, MaxTargets)
    /\ lastTouch = NoTouch

TouchNext ==
    \/ Layout
    \/ CallValidateTouchTarget
    \/ CallAuditTouchTargets

TouchSpec == TouchInit /\ [][TouchNext]_vars

\* the measured length is exactly n pixels
ExactlyPx(len, n) == len.whole = n /\ ~len.half

\* the measured length is below n pixels
BelowPx(len, n) == len.whole < n

\* C13: a verdict has isValid = TRUE iff the measured width and the measured
\* height are both at least the minimum, 44: a 44x44 element is compliant, a
\* 43x44 element is not and gets exactly one recommendation, for the width.
C13_ValidIffBothAtLeastMinimum ==
    lastTouch.op = "validate" =>
        LET e == dom[lastTouch.element]
            v == lastTouch.verdict
        IN /\ v.isValid <=> (~BelowPx(e.width, 44) /\ ~BelowPx(e.height, 44))
           /\ (ExactlyPx(e.width, 44) /\ ExactlyPx(e.height, 44)) => v.isValid
           /\ (ExactlyPx(e.width, 43) /\ ExactlyPx(e.height, 44))
                  => /\ ~v.isValid
                     /\ Len(v.recommendations) = 1
                     /\ v.recommendations[1].axis = "width"

\* a 43x44 element was validated
C13_Witness ==
    /\ lastTouch.op = "validate"
    /\ ExactlyPx(dom[lastTouch.element].width, 43)
    /\ ExactlyPx(dom[lastTouch.element].height, 44)
    /\ ~lastTouch.verdict.isValid
    /\ Len(lastTouch.verdict.recommendations) = 1

\* the element has no box: its measured width and height are zero
Unmeasured(e) == ExactlyPx(e.width, 0) /\ ExactlyPx(e.height, 0)

\* the positions of the elements the audit's selector matches
Audited(d) == {i \in 1..Len(d) : MatchesInteractiveSelector(d[i])}

\* C14: an audited element whose measured size is zero is counted in total
\* and is listed in issues, once, with a recommendation for the width and
\* one for the height; it is not skipped and not counted as compliant.
C14_UnmeasuredIsReported ==
    lastTouch.op = "audit" =>
        LET rep == lastTouch.report
            unmeasured == {i \in Audited(dom) : Unmeasured(dom[i])}
        IN /\ rep.total = Cardinality(Audited(dom))
           /\ rep.compliant <= Cardinality(Audited(dom) \ unmeasured)
           /\ \A i \in unmeasured :
                  /\ Cardinality({k \in 1..Len(rep.issues) :
                                     rep.issues[k].element = i}) = 1
                  /\ \A k \in 1..Len(rep.issues) :
                         rep.issues[k].element = i
                             => /\ Len(rep.issues[k].issues) = 2
                                /\ rep.issues[k].issues[1].axis = "width"
                                /\ rep.issues[k].issues[2].axis = "height"

\* an audit of a page holding a compliant button and a button without a box
C14_Witness ==
    /\ lastTouch.op = "audit"
    /\ Len(dom) = 2
    /\ dom[1].tagName = "BUTTON" /\ ExactlyPx(dom[1].width, 44)
    /\ ExactlyPx(dom[1].height, 44)
    /\ dom[2].tagName = "BUTTON" /\ Unmeasured(dom[2])
    /\ lastTouch.report.total = 2
    /\ lastTouch.report.compliant = 1
    /\ Len(lastTouch.report.issues) = 1

\* the axes of a box that are below n pixels, width first
AxesBelow(e, n) ==
    (IF BelowPx(e.width, n) THEN <<"width">> ELSE <<>>)
    \o (IF BelowPx(e.height, n) THEN <<"height">> ELSE <<>>)

\* C23: width and height are judged independently: the recommendation list
\* has one entry per axis below the minimum, width first, and is empty iff
\* isValid; each entry names its axis, the minimum 44 and a current size
\* that is below the minimum.
C23_OneRecommendationPerFailingAxis ==
    lastTouch.op = "validate" =>
        LET e == dom[lastTouch.element]
            recs == lastTouch.verdict.recommendations
            axes == AxesBelow(e, 44)
        IN /\ Len(recs) = Len(axes)
           /\ recs = <<>> <=> lastTouch.verdict.isValid
           /\ \A k \in 1..Len(recs) :
                  /\ k <= Len(axes) => recs[k].axis = axes[k]
                  /\ recs[k].minimum = 44
                  /\ recs[k].current < recs[k].minimum

\* C27: an audit report partitions the audited elements: total is compliant
\* plus the number of issues, every audited element is counted compliant or
\* listed in issues exactly once, and it is listed exactly when its verdict
\* is invalid, with a non-empty recommendation list.
C27_ReportPartitionsAudited ==
    lastTouch.op = "audit" =>
        LET rep == lastTouch.report
            invalid == {i \in Audited(dom) : AxesBelow(dom[i], 44) # <<>>}
            listed(i) == {k \in 1..Len(rep.issues) : rep.issues[k].element = i}
        IN /\ rep.total = rep.compliant + Len(rep.issues)
           /\ rep.total = Cardinality(Audited(dom))
           /\ rep.compliant = Cardinality(Audited(dom) \ invalid)
           /\ \A i \in 1..Len(dom) :
                  Cardinality(listed(i)) = IF i \in invalid THEN 1 ELSE 0
           /\ \A k \in 1..Len(rep.issues) : rep.issues[k].issues # <<>>

\* an audit of a page with one compliant and one too narrow button
C27_Witness ==
    /\ lastTouch.op = "audit"
    /\ Len(dom) = 2
    /\ dom[1].tagName = "BUTTON" /\ ExactlyPx(dom[1].width, 43)
    /\ ExactlyPx(dom[1].height, 44)
    /\ dom[2].tagName = "BUTTON" /\ ExactlyPx(dom[2].width, 44)
    /\ ExactlyPx(dom[2].height, 44)
    /\ lastTouch.report.compliant = 1
    /\ Len(lastTouch.report.issues) = 1
    /\ lastTouch.report.issues[1].element = 1

(***************************************************************************)
(* Colour contrast: specification and properties                           *)
(***************************************************************************)
ContrastInit ==
    /\ FocusIdle
    /\ AnnouncerIdle
    /\ ShortcutIdle
    /\ TouchIdle
    /\ OthersIdle
    /\ foreground \in Colors
    /\ background \in Colors
    /\ isLargeText \in BOOLEAN
    /\ lastContrast = NoContrast

ContrastNext ==
    \/ CallGetContrastRatio
    \/ CallMeetsWCAGAA
    \/ CallGetRecommendedTextColor
    \/ CallValidateColorCombination
    \/ CallHasValidContrast

ContrastSpec == ContrastInit /\ [][ContrastNext]_vars

\* the colours the last call was given: getRecommendedTextColor takes the
\* background only
GivenColors ==
    IF lastContrast.op = "getRecommendedTextColor" THEN {background}
    ELSE {foreground, background}

\* C15: a call of any contrast entry point with a malformed colour fails
\* with the invalid-colour error; it returns no ratio, verdict or default.
C15_MalformedColourFails ==
    (lastContrast.op # "none" /\ GivenColors \cap MalformedColors # {})
        => lastContrast.error = InvalidHex

\* the ratio of the two colours before rounding
Unrounded == GetContrastRatio(foreground, background).ratio

MeetsReturned == lastContrast.op = "meetsWCAGAA" /\ lastContrast.error = ""

\* C16: the level depends on the ratio and the text-size class only: with
\* required ratio 4.5 (normal) or 3 (large) and AAA threshold 7 (normal) or
\* 4.5 (large), level is AAA iff ratio >= AAA threshold, AA iff required <=
\* ratio < AAA threshold, Fail otherwise; passes iff level is not Fail.
C16_LevelFromRatioAndSize ==
    MeetsReturned =>
        LET m == lastContrast.meets
            required == IF isLargeText THEN 300 ELSE 450
            aaa == IF isLargeText THEN 450 ELSE 700
        IN /\ m.required = required
           /\ m.level = "AAA" <=> 100 * Unrounded.num >= aaa * Unrounded.den
           /\ m.level = "AA" <=> /\ 100 * Unrounded.num >= required * Unrounded.den
                                 /\ 100 * Unrounded.num < aaa * Unrounded.den
           /\ m.level = "Fail" <=> 100 * Unrounded.num < required * Unrounded.den
           /\ m.passes <=> m.level # "Fail"

\* large text at about 3.03:1 was rated AA
C16_Witness ==
    /\ MeetsReturned
    /\ isLargeText
    /\ lastContrast.meets.level = "AA"
    /\ lastContrast.meets.ratio = 303
    /\ lastContrast.meets.passes

RatioReturned == lastContrast.op = "getContrastRatio" /\ lastContrast.error = ""

\* C17: for all valid colour pairs (A, B) the contrast ratio of (A, B)
\* equals the contrast ratio of (B, A).
C17_Symmetric ==
    RatioReturned =>
        /\ GetContrastRatio(background, foreground).error = ""
        /\ lastContrast.ratio = GetContrastRatio(background, foreground).ratio

\* the ratio of black (first) against a mid grey (second) was computed
C17_Witness ==
    /\ RatioReturned
    /\ foreground = Black
    /\ background # Black /\ background # White
    /\ lastContrast.ratio.num > lastContrast.ratio.den

\* the luminance of a well-formed colour
LuminanceOf(color) ==
    LET rgb == HexToRgb(color) IN GetLuminance(rgb.r, rgb.g, rgb.b)

IsWhite(color) == LuminanceOf(color) = LuminanceOf(White) /\ color # Black
IsBlack(color) == color = Black

\* C18: for all valid colour pairs the ratio lies in [1, 21]; it is 1 for two
\* colours of equal luminance and exactly 21 for white against black.
C18_RatioBetweenOneAndTwentyOne ==
    RatioReturned =>
        LET r == lastContrast.ratio
        IN /\ r.num >= r.den
           /\ r.num <= 21 * r.den
           /\ LuminanceOf(foreground) = LuminanceOf(background) => r.num = r.den
           /\ ((IsWhite(foreground) /\ IsBlack(background))
               \/ (IsBlack(foreground) /\ IsWhite(background)))
                  => r.num = 21 * r.den

\* white against black gave 21
C18_Witness ==
    /\ RatioReturned
    /\ foreground = White /\ background = Black
    /\ lastContrast.ratio.num = 21 * lastContrast.ratio.den

\* h hundredths is the ratio rounded to 2 decimal places
RoundsTo(ratio, h) ==
    /\ 2 * (100 * ratio.num - h * ratio.den) < ratio.den
    /\ 2 * (h * ratio.den - 100 * ratio.num) <= ratio.den

\* C19: passes and level are decided on the unrounded ratio and the reported
\* ratio is that ratio rounded to 2 decimal places: a pair whose unrounded
\* ratio is below the required ratio is Fail and does not pass, also when
\* its reported ratio equals the required ratio.
C19_DecidedOnUnroundedRatio ==
    MeetsReturned =>
        LET m == lastContrast.meets
        IN /\ RoundsTo(Unrounded, m.ratio)
           /\ m.passes <=> 100 * Unrounded.num >= m.required * Unrounded.den
           /\ 100 * Unrounded.num < m.required * Unrounded.den
                  => (m.level = "Fail" /\ ~m.passes)

\* normal text whose ratio is reported as 4.5 failed
C19_Witness ==
    /\ MeetsReturned
    /\ ~isLargeText
    /\ lastContrast.meets.ratio = 450
    /\ lastContrast.meets.required = 450
    /\ lastContrast.meets.level = "Fail"
    /\ ~lastContrast.meets.passes

\* the ratio of a text colour against the background of the last call
Against(color) == GetContrastRatio(color, background).ratio

\* C29: for every valid background getRecommendedTextColor returns white or
\* black, white only when its contrast is strictly the greater (black on a
\* tie), and the returned colour has a ratio of at least 4.5 against the
\* background; the colour validateColorCombination recommends for a
\* combination it reports as not accessible passes AA for normal text.
C29_RecommendedColourPassesAA ==
    /\ (lastContrast.op = "getRecommendedTextColor" /\ lastContrast.error = "")
           => /\ lastContrast.color \in {White, Black}
              /\ lastContrast.color = White
                     <=> FractionGreater(Against(White).num, Against(White).den,
                                         Against(Black).num, Against(Black).den)
              /\ 10 * Against(lastContrast.color).num
                     >= 45 * Against(lastContrast.color).den
    /\ (lastContrast.op = "validateColorCombination" /\ lastContrast.error = ""
           /\ ~lastContrast.combination.isAccessible)
           => /\ lastContrast.combination.recommendation \in {White, Black}
              /\ MeetsWCAGAA(lastContrast.combination.recommendation,
                             background, FALSE).result.passes

\* a grey on a grey of nearly the same luminance was reported as not
\* accessible, with black recommended on that mid-grey background
C29_Witness ==
    /\ lastContrast.op = "validateColorCombination"
    /\ lastContrast.error = ""
    /\ ~lastContrast.combination.isAccessible
    /\ lastContrast.combination.recommendation = Black
    /\ foreground # background
    /\ LuminanceOf(background) < LuminanceOf(foreground)
    /\ background \notin {White, Black}

(***************************************************************************)
(* FormAnnouncement: specification and properties                          *)
(***************************************************************************)
FormInit ==
    /\ FocusIdle /\ AnnouncerIdle /\ ShortcutIdle /\ TouchIdle /\ ContrastIdle
    /\ MediaIdle /\ ZoomIdle /\ AuthIdle
    /\ FormIdle

FormNext ==
    \/ SetFormMessage
    \/ FormTimerFire
    \/ FormTick

FormSpec == FormInit /\ [][FormNext]_vars

\* C24: a displayed announcement is cleared no later than 3000 ms after it
\* was set, under any sequence of changes of the message prop, a change back
\* to the empty string included.
C24_ClearedWithinDelay ==
    formAnnouncement # "" => formNow <= formSetAt + 3000

(***************************************************************************)
(* MediaUpload: specification and properties                               *)
(***************************************************************************)
MediaInit ==
    /\ FocusIdle /\ AnnouncerIdle /\ ShortcutIdle /\ TouchIdle /\ ContrastIdle
    /\ FormIdle /\ ZoomIdle /\ AuthIdle
    /\ MediaIdle

MediaNext ==
    \/ HandleDrag
    \/ HandleDrop
    \/ HandleChange
    \/ RemoveFile

MediaSpec == MediaInit /\ [][MediaNext]_vars

\* C30: after any additions and removals the file list most recently passed
\* to onFilesChange holds exactly the files of the uploaded-files list, in
\* the same order, and is null exactly when that list is empty.
C30_CallbackMatchesList ==
    lastFilesChange.called =>
        /\ lastFilesChange.files = uploadedFiles
        /\ lastFilesChange.isNull <=> uploadedFiles = <<>>

(***************************************************************************)
(* Zoom prevention: specification and properties                           *)
(***************************************************************************)
ZoomInit ==
    /\ FocusIdle /\ AnnouncerIdle /\ ShortcutIdle /\ TouchIdle /\ ContrastIdle
    /\ FormIdle /\ MediaIdle /\ AuthIdle
    /\ viewportContent \in AuthoredContents
    /\ mobileViewport \in BOOLEAN
    /\ focusinHandlers = 0
    /\ fieldEnhanced = FALSE
    /\ fieldFocused = FALSE
    /\ blurListeners = <<>>
    /\ lastZoom = NoZoomEvent

ZoomNext ==
    \/ ManageMobileFocus
    \/ EnhanceForMobile
    \/ Resize
    \/ FocusField
    \/ BlurField

ZoomSpec == ZoomInit /\ [][ZoomNext]_vars

\* C25: on a mobile viewport, after the field received focus and lost it
\* again, the viewport's content is what it was before that focus, however
\* many handlers are installed.
C25_ViewportRestoredAfterBlur ==
    (lastZoom.op = "blur" /\ lastZoom.mobile) => viewportContent = lastZoom.before

(***************************************************************************)
(* AuthProvider: specification and properties                              *)
(***************************************************************************)
\* the provider mounts with or without a valid stored session
AuthInit ==
    /\ FocusIdle /\ AnnouncerIdle /\ ShortcutIdle /\ TouchIdle /\ ContrastIdle
    /\ FormIdle /\ MediaIdle /\ ZoomIdle
    /\ \E stored \in BOOLEAN :
           /\ storedSession = stored
           /\ user = IF stored THEN UserObj ELSE NoUser
    /\ pendingCalls = {}
    /\ authCalls = 0
    /\ lastLogout = -1
    /\ authBy = 0

AuthNext ==
    \/ Login
    \/ Register
    \/ CompleteCall
    \/ Logout

AuthSpec == AuthInit /\ [][AuthNext]_vars

\* C28: logout is final: once logout() has run, the user is authenticated
\* (and a session stored) only by a login or register call started after
\* that logout, never by one that was pending when it ran.
C28_LogoutIsFinal ==
    (lastLogout >= 0 /\ (user # NoUser \/ storedSession)) => authBy > lastLogout

====
